---- MODULE Spec2Model ----
(***************************************************************************)
(* A model of fisher (Kwunch/fisher): key derivation (enum.rs              *)
(* generate_key), the cipher selector (enum.rs Fishers), the file          *)
(* transform engine (fish.rs Fisher::modify_file) and the tree walker      *)
(* (fish.rs Fisher::run, Fisher::iter_dir) as driven by main.rs.           *)
(*                                                                         *)
(* Two specifications share the module:                                    *)
(*   SpecFile  one file taken through modify_file chunk by chunk, and,     *)
(*             after an encrypting pass, through a decrypting pass;        *)
(*   Spec      main: Fisher::new, then run with its spawned units.         *)
(***************************************************************************)
EXTENDS Integers, Sequences, FiniteSets, TLC

VARIABLES
    \* ---- the fields of struct Fisher (fish.rs 18-24) ----
    block_size,       \* usize
    crypt,            \* bool: TRUE encrypts, FALSE decrypts
    fisher,           \* the keyed cipher variant
    path,             \* Vec<PathBuf>: the Path Set
    threads,          \* Mutex<Vec<JoinHandle>>: the registry, a sequence of unit ids
    \* ---- one call of modify_file followed step by step (SpecFile) ----
    disk,             \* the bytes of the file on disk
    orig,             \* history: the bytes before the first pass
    start,            \* history: the bytes when the current pass opened the file
    mpc,              \* the position in modify_file
    pos,              \* the read offset of the open file
    handed,           \* history: every buffer passed to the cipher, with bytes_read
    modified_blocks,  \* Vec<Vec<u8>>
    widx,             \* the index of the write loop
    pass,             \* 1: the first transform, 2: the decrypt that follows an encrypt
    \* ---- main, run and the spawned units (Spec) ----
    args,             \* what Fisher::new is called with
    pc,               \* the position of the main thread (the orchestrator)
    idx,              \* the index of run's loop over self.path
    mblocks,          \* modified_blocks of the main thread's modify_file
    joining,          \* the unit removed from the registry and being joined (0: none)
    mutex,            \* the holder of the registry's lock: Free, HeldByMain, HeldBy(u)
    units,            \* the units in the order they were spawned
    content,          \* the bytes of every file of the tree
    fault,            \* the I/O failure of this run: [node, kind], kind "none" for none
    err,              \* the outcome of main: "none" or the error
    calls,            \* history: how often modify_file was called on each file
    joined,           \* history: the units whose join has returned
    buffer,           \* the block given to encrypt_block or decrypt_block
    ret               \* what the call returned: "none" before it

fvars == <<block_size, crypt, fisher, path, threads>>
evars == <<disk, orig, start, mpc, pos, handed, modified_blocks, widx, pass>>
wvars == <<args, pc, idx, mblocks, joining, mutex, units, content, fault, err,
           calls, joined>>
bvars == <<buffer, ret>>
vars == <<fvars, evars, wvars, bvars>>

(***************************************************************************)
(* Bounds of the model.                                                    *)
(***************************************************************************)
\* Bytes are 0..ByteMod-1 (a u8 scaled down).
ByteMod == 2
\* The longest file content of SpecFile, in bytes.
MaxLen == 5
\* SpecFile takes block_size from 1..MaxWidth: modify_file reads
\* self.block_size and nothing else about the width, so the widths 8..128
\* of the program are scaled down with the bytes.
MaxWidth == 2
\* The tree of Spec holds a chain of Depth nested directories, one file in each.
Depth == 3

Byte == 0..(ByteMod - 1)

\* The states of the Mutex around self.threads.
Free == <<"free", 0>>
HeldByMain == <<"main", 0>>
HeldBy(u) == <<"unit", u>>

Min(a, b) == IF a < b THEN a ELSE b

RECURSIVE SeqsUpTo(_)
\* All byte sequences of length at most n.
SeqsUpTo(n) ==
    IF n = 0 THEN {<<>>}
    ELSE LET S == SeqsUpTo(n - 1)
         IN  S \cup {Append(s, b) : s \in {t \in S : Len(t) = n - 1}, b \in Byte}

(***************************************************************************)
(* Cipher selector (enum.rs).  The block ciphers are library code: a keyed *)
(* cipher is a permutation of the blocks of its width with its inverse.    *)
(* The model's family: rotate the block by one position and add the key    *)
(* index to every byte.  A block whose length is not the variant's width   *)
(* makes clone_from_slice panic.                                           *)
(***************************************************************************)
Rot(i, n) == (i % n) + 1
RotInv(i, n) == ((i + n - 2) % n) + 1

Forward(k, block) ==
    [i \in 1..Len(block) |-> (block[Rot(i, Len(block))] + k) % ByteMod]

Backward(k, block) ==
    [i \in 1..Len(block) |-> (block[RotInv(i, Len(block))] + ByteMod - k) % ByteMod]

\* Fishers::encrypt_block: Ok(true) with the block replaced, or a panic.
EncryptBlock(c, block) ==
    IF Len(block) # c.width
    THEN [panic |-> TRUE, block |-> block]
    ELSE [panic |-> FALSE, block |-> Forward(c.k, block)]

\* Fishers::decrypt_block.
DecryptBlock(c, block) ==
    IF Len(block) # c.width
    THEN [panic |-> TRUE, block |-> block]
    ELSE [panic |-> FALSE, block |-> Backward(c.k, block)]

(***************************************************************************)
(* File transform engine: the pieces of modify_file.                       *)
(***************************************************************************)
\* A mutant of ReadSome: the buffer is cut to the bytes that were read.
ReadSomeCut(bytes, p, B, n) ==
    [bytes_read |-> n, buffer |-> [i \in 1..n |-> bytes[p + i]]]

\* One pass of the read loop up to the test of bytes_read: a fresh buffer of
\* block_size zeros, and a file.read at offset p that returns n bytes.
ReadSome(bytes, p, B, n) ==
    [bytes_read |-> n,
     buffer |-> [i \in 1..B |-> IF i <= n THEN bytes[p + i] ELSE 0]]

\* On a regular file read returns the bytes left, up to the size of the
\* buffer.
ReadChunk(bytes, p, B) == ReadSome(bytes, p, B, Min(B, Len(bytes) - p))

\* A mutant of AtEof: a short read is taken for the end of the file.
AtEofShort(chunk) == chunk.bytes_read < Len(chunk.buffer)

\* if bytes_read == 0 { break; }
AtEof(chunk) == chunk.bytes_read = 0

\* The match on self.crypt.
CryptBlock(c, dir, block) ==
    IF dir THEN EncryptBlock(c, block) ELSE DecryptBlock(c, block)

\* The count of the write loop, for byte in block.iter().rev(): the n bytes
\* at the end of the block that are zero, up to the first that is not.
Padding(block) ==
    CHOOSE n \in 0..Len(block) :
        /\ \A j \in (Len(block) - n + 1)..Len(block) : block[j] = 0
        /\ n = Len(block) \/ block[Len(block) - n] # 0

\* &block[..block.len() - padding]
Truncate(block) == SubSeq(block, 1, Len(block) - Padding(block))

\* The test of the write loop for "this is the last block".
IsLastBlock(blocks, j) == blocks[j] = blocks[Len(blocks)]

(***************************************************************************)
(* SpecFile: modify_file on one file, step by step.                        *)
(***************************************************************************)
\* No walker: the variables of main, run and the units at rest.
InitIdle ==
    /\ path = <<>>
    /\ threads = <<>>
    /\ args = <<>>
    /\ pc = "file"
    /\ idx = 0
    /\ mblocks = <<>>
    /\ joining = 0
    /\ mutex = Free
    /\ units = <<>>
    /\ content = <<>>
    /\ fault = <<>>
    /\ err = "none"
    /\ calls = <<>>
    /\ joined = {}

InitFile ==
    /\ block_size \in 1..MaxWidth
    /\ crypt \in BOOLEAN
    /\ fisher \in {[width |-> block_size, k |-> k] : k \in Byte}
    /\ disk \in SeqsUpTo(MaxLen)
    /\ orig = disk
    /\ start = disk
    /\ mpc = "open"
    /\ pos = 0
    /\ handed = <<>>
    /\ modified_blocks = <<>>
    /\ widx = 0
    /\ pass = 1
    /\ InitIdle
    /\ buffer = <<>>
    /\ ret = "none"

\* A mutant of MFOpen: the first open is the truncating one.
MFOpenTruncating ==
    /\ mpc = "open"
    /\ mpc' = "read"
    /\ pos' = 0
    /\ modified_blocks' = <<>>
    /\ handed' = <<>>
    /\ start' = disk
    /\ disk' = <<>>
    /\ UNCHANGED <<fvars, wvars, bvars, orig, widx, pass>>

\* File::open(path), and the empty vector of blocks.
MFOpen ==
    /\ mpc = "open"
    /\ mpc' = "read"
    /\ pos' = 0
    /\ modified_blocks' = <<>>
    /\ handed' = <<>>
    /\ start' = disk
    /\ UNCHANGED <<fvars, wvars, bvars, disk, orig, widx, pass>>

\* One iteration of the read loop, on the chunk that file.read returned.
MFReadWith(chunk) ==
    /\ mpc = "read"
    /\ LET out == CryptBlock(fisher, crypt, chunk.buffer)
       IN  IF AtEof(chunk)
           THEN /\ mpc' = "reopen"
                /\ UNCHANGED <<pos, handed, modified_blocks>>
           ELSE /\ pos' = pos + chunk.bytes_read
                /\ handed' = Append(handed, chunk)
                /\ IF out.panic
                   THEN mpc' = "panic" /\ UNCHANGED modified_blocks
                   ELSE /\ mpc' = "read"
                        /\ modified_blocks' = Append(modified_blocks, out.block)
    /\ UNCHANGED <<fvars, wvars, bvars, disk, orig, start, widx, pass>>

\* One iteration of the read loop on a regular file.
MFRead == MFReadWith(ReadChunk(disk, pos, block_size))

\* OpenOptions::new().write(true).truncate(true).open(path)
MFReopen ==
    /\ mpc = "reopen"
    /\ disk' = <<>>
    /\ widx' = 1
    /\ mpc' = IF modified_blocks = <<>> THEN "ok" ELSE "write"
    /\ UNCHANGED <<fvars, wvars, bvars, orig, start, pos, handed, modified_blocks, pass>>

\* One iteration of the write loop.
MFWrite ==
    /\ mpc = "write"
    /\ IF IsLastBlock(modified_blocks, widx)
       THEN /\ disk' = disk \o Truncate(modified_blocks[widx])
            /\ mpc' = "ok"
            /\ UNCHANGED widx
       ELSE /\ disk' = disk \o modified_blocks[widx]
            /\ widx' = widx + 1
            /\ UNCHANGED mpc
    /\ UNCHANGED <<fvars, wvars, bvars, orig, start, pos, handed, modified_blocks, pass>>

\* The file that was encrypted is given to a second run that decrypts with
\* the same key.
MFDecryptAfter ==
    /\ mpc = "ok"
    /\ pass = 1
    /\ crypt = TRUE
    /\ pass' = 2
    /\ crypt' = FALSE
    /\ mpc' = "open"
    /\ UNCHANGED <<block_size, fisher, path, threads, wvars, bvars>>
    /\ UNCHANGED <<disk, orig, start, pos, handed, modified_blocks, widx>>

NextFile == MFOpen \/ MFRead \/ MFReopen \/ MFWrite \/ MFDecryptAfter

SpecFile == InitFile /\ [][NextFile]_vars

(***************************************************************************)
(* SpecShort: modify_file when file.read may return fewer bytes than the   *)
(* buffer holds before the end of the file (Read::read allows it).         *)
(***************************************************************************)
\* One iteration of the read loop: read returns 0 at the end of the file
\* only, and else any count from 1 to what the buffer and the file allow.
MFReadShort ==
    \E n \in 0..Min(block_size, Len(disk) - pos) :
        /\ n = 0 => pos = Len(disk)
        /\ MFReadWith(ReadSome(disk, pos, block_size, n))

\* One call of modify_file.
NextShort == MFOpen \/ MFReadShort \/ MFReopen \/ MFWrite

SpecShort == InitFile /\ [][NextShort]_vars

(***************************************************************************)
(* SpecFault: modify_file on a regular file when any of its I/O calls may  *)
(* fail; the error leaves modify_file through the ? of the call.           *)
(***************************************************************************)
\* File::open(path)?
MFOpenFails ==
    /\ mpc = "open"
    /\ mpc' = "err_open"
    /\ UNCHANGED <<fvars, wvars, bvars, disk, orig, start, pos, handed, widx,
                   modified_blocks, pass>>

\* file.read(&mut buffer)?
MFReadFails ==
    /\ mpc = "read"
    /\ mpc' = "err_read"
    /\ UNCHANGED <<fvars, wvars, bvars, disk, orig, start, pos, handed, widx,
                   modified_blocks, pass>>

\* The truncating open fails: .open(path)?
MFReopenFails ==
    /\ mpc = "reopen"
    /\ mpc' = "err_reopen"
    /\ UNCHANGED <<fvars, wvars, bvars, disk, orig, start, pos, handed, widx,
                   modified_blocks, pass>>

\* file.write(&block)? fails on the block at widx (a write of bytes: the
\* write of an empty slice writes nothing and does not fail).
MFWriteFails ==
    /\ mpc = "write"
    /\ IsLastBlock(modified_blocks, widx) =>
          Truncate(modified_blocks[widx]) # <<>>
    /\ mpc' = "err_write"
    /\ UNCHANGED <<fvars, wvars, bvars, disk, orig, start, pos, handed, widx,
                   modified_blocks, pass>>

NextFault ==
    \/ MFOpen
    \/ MFRead
    \/ MFReopen
    \/ MFWrite
    \/ MFDecryptAfter
    \/ MFOpenFails
    \/ MFReadFails
    \/ MFReopenFails
    \/ MFWriteFails

SpecFault == InitFile /\ [][NextFault]_vars

(***************************************************************************)
(* SpecBlock: one call of encrypt_block or decrypt_block on a buffer of    *)
(* any length.                                                             *)
(***************************************************************************)
InitBlock ==
    /\ block_size \in 1..MaxWidth
    /\ crypt = FALSE
    /\ fisher \in {[width |-> block_size, k |-> k] : k \in Byte}
    /\ buffer \in SeqsUpTo(MaxLen)
    /\ ret = "none"
    /\ disk = <<>>
    /\ orig = <<>>
    /\ start = <<>>
    /\ mpc = "none"
    /\ pos = 0
    /\ handed = <<>>
    /\ modified_blocks = <<>>
    /\ widx = 0
    /\ pass = 0
    /\ InitIdle

\* The value the call returns, or the panic that ends it.
Returned(out) == IF out.panic THEN "panic" ELSE "Ok(true)"

\* self.fisher.encrypt_block(&mut buffer)
CallEncrypt ==
    /\ ret = "none"
    /\ buffer' = EncryptBlock(fisher, buffer).block
    /\ ret' = Returned(EncryptBlock(fisher, buffer))
    /\ UNCHANGED <<fvars, evars, wvars>>

\* self.fisher.decrypt_block(&mut buffer)
CallDecrypt ==
    /\ ret = "none"
    /\ buffer' = DecryptBlock(fisher, buffer).block
    /\ ret' = Returned(DecryptBlock(fisher, buffer))
    /\ UNCHANGED <<fvars, evars, wvars>>

NextBlock == CallEncrypt \/ CallDecrypt

SpecBlock == InitBlock /\ [][NextBlock]_vars

(***************************************************************************)
(* Key derivation (enum.rs generate_key).  A digest is a term over the     *)
(* text hashed; the permutation the library builds from the key is indexed *)
(* by KeyIndex of the passphrase hashed.                                   *)
(***************************************************************************)
\* The passphrase argument: a literal, the path of a regular file that can
\* be read, the path of a regular file that cannot.
Passphrases == {"pw", "keyfile", "badfile"}

\* PathBuf::from(&passphrase).is_file()
IsPassFile(p) == p \in {"keyfile", "keyfile2", "badfile"}

\* File::open and read_to_string succeed.
PassFileReadable(p) == p \in {"keyfile", "keyfile2"}

\* The text read_to_string returns.
PassFileText(p) == IF p = "keyfile2" THEN "pw" ELSE "secret"

\* hasher.update(x); hasher.finalize(): a digest is the name of the hash put
\* before what was hashed, <<p>> for the bytes of the text p.
H256(x) == <<"H256">> \o x
H512(x) == <<"H512">> \o x

\* The bytes of a digest: 32 of Sha256, 64 of Sha512.
DigestLen(d) == IF Head(d) = "H256" THEN 32 ELSE 64

\* hash.as_slice(): all the bytes of the digest.
Whole(d) == [digest |-> d, take |-> DigestLen(d)]

\* &hash[..n]: its first n bytes.
FirstBytes(n, d) == [digest |-> d, take |-> n]

RECURSIVE KeyLen(_)
\* The bytes of a key, a sequence of slices of digests.
KeyLen(key) == IF key = <<>> THEN 0 ELSE Head(key).take + KeyLen(Tail(key))

\* The key size Key::<C>::from_slice asserts for the cipher C.
KeySize(variant) ==
    CASE variant = "Blowfish" -> 56
      [] variant = "Twofish" -> 32
      [] variant = "Threefish256" -> 32
      [] variant = "Threefish512" -> 64
      [] variant = "Threefish1024" -> 128

KeyIndex(p) == (IF p = "pw" THEN 0 ELSE 1) % ByteMod

KeyErr(e) == [ok |-> FALSE, err |-> e, fisher |-> <<>>]

\* Ok(Fishers::C(C::new(Key::<C>::from_slice(key)))); from_slice panics on
\* a slice that has not the key size of C.
KeyOk(variant, width, key, p) ==
    IF KeyLen(key) # KeySize(variant) THEN KeyErr("Panic")
    ELSE [ok |-> TRUE, err |-> "none",
          fisher |-> [variant |-> variant, width |-> width, key |-> key,
                      k |-> KeyIndex(p)]]

\* A mutant of ThreefishKey: a width that is none of 32, 64, 128 falls back
\* to Threefish-1024 (the default width of main) instead of failing.
ThreefishKeyFallback(blk, p) ==
    CASE blk = 32 -> KeyOk("Threefish256", 32, <<Whole(H256(<<p>>))>>, p)
      [] blk = 64 -> KeyOk("Threefish512", 64, <<Whole(H512(<<p>>))>>, p)
      [] OTHER -> KeyOk("Threefish1024", 128,
                        <<Whole(H512(<<p>>)), Whole(H512(H512(<<p>>)))>>, p)

\* A mutant of ThreefishKey: the second half of the Threefish-1024 key is
\* the hash of the passphrase again, not the hash of the first digest.
ThreefishKeySamePass(blk, p) ==
    CASE blk = 32 -> KeyOk("Threefish256", 32, <<Whole(H256(<<p>>))>>, p)
      [] blk = 64 -> KeyOk("Threefish512", 64, <<Whole(H512(<<p>>))>>, p)
      [] blk = 128 -> KeyOk("Threefish1024", 128,
                            <<Whole(H512(<<p>>)), Whole(H512(<<p>>))>>, p)
      [] OTHER -> KeyErr("InvalidBlockSize")

\* generate_key, the match on block_size of algorithm 2.
ThreefishKey(blk, p) ==
    CASE blk = 32 -> KeyOk("Threefish256", 32, <<Whole(H256(<<p>>))>>, p)
      [] blk = 64 -> KeyOk("Threefish512", 64, <<Whole(H512(<<p>>))>>, p)
      [] blk = 128 -> KeyOk("Threefish1024", 128,
                            <<Whole(H512(<<p>>)), Whole(H512(H512(<<p>>)))>>, p)
      [] OTHER -> KeyErr("InvalidBlockSize")

\* The match on alg, on the passphrase p that is hashed.
KeyOfText(alg, blk, p) ==
    CASE alg = 0 -> KeyOk("Blowfish", 8, <<FirstBytes(56, H512(<<p>>))>>, p)
      [] alg = 1 -> KeyOk("Twofish", 16, <<Whole(H256(<<p>>))>>, p)
      [] alg = 2 -> ThreefishKey(blk, p)
      [] OTHER -> KeyErr("InvalidAlgorithm")

\* A mutant of GenerateKey: the argument is hashed as it is, file or not.
GenerateKeyLiteral(alg, blk, passphrase) == KeyOfText(alg, blk, passphrase)

\* generate_key(alg, block_size, passphrase)
GenerateKey(alg, blk, passphrase) ==
    IF IsPassFile(passphrase) /\ ~PassFileReadable(passphrase)
    THEN KeyErr("Io")
    ELSE KeyOfText(alg, blk, IF IsPassFile(passphrase)
                             THEN PassFileText(passphrase)
                             ELSE passphrase)

(***************************************************************************)
(* The tree the walker is run on.  A node is <<file name, number>>.        *)
(*   c1/ { c2/ { ... cDepth/ { cf } ..., cf }, cf }     the chain          *)
(*   m/  { .DS_Store, a/ { fa }, b/ { fb }, fm }                           *)
(*   t, .DS_Store                                       two files          *)
(***************************************************************************)
ChainDir(k) == <<"c", k>>
ChainFile(k) == <<"cf", k>>
DirM == <<"m", 0>>
DirA == <<"a", 0>>
DirB == <<"b", 0>>
FileA == <<"fa", 0>>
FileB == <<"fb", 0>>
FileM == <<"fm", 0>>
DsInM == <<".DS_Store", 0>>
FileT == <<"t", 0>>
DsTop == <<".DS_Store", 1>>

Dirs == {ChainDir(k) : k \in 1..Depth} \cup {DirM, DirA, DirB}
Files == {ChainFile(k) : k \in 1..Depth}
            \cup {FileA, FileB, FileM, DsInM, FileT, DsTop}

\* path.is_dir()
IsDir(node) == node \in Dirs

\* path.file_name()
FileName(node) == node[1]

\* fs::read_dir(path), in the order the entries come.
ReadDir(d) ==
    CASE d = DirM -> <<DsInM, DirA, DirB, FileM>>
      [] d = DirA -> <<FileA>>
      [] d = DirB -> <<FileB>>
      [] OTHER -> IF d[2] < Depth
                  THEN <<ChainDir(d[2] + 1), ChainFile(d[2])>>
                  ELSE <<ChainFile(d[2])>>

\* What the files hold before the run.
InitContent(f) ==
    CASE f = FileT -> <<1, 0, 1>>
      [] f = FileM -> <<>>
      [] f \in {DsInM, DsTop} -> <<0, 1>>
      [] OTHER -> <<1>>

\* The Path Sets of the model.
PathSets ==
    { <<ChainDir(1)>>, <<DirM>>, <<FileT, DirM>>, <<DirM, FileT>>,
      <<FileT, DsTop>> }

RECURSIVE Below(_)
\* The node and everything under it.
Below(node) ==
    IF IsDir(node)
    THEN {node} \cup UNION {Below(ReadDir(node)[j]) : j \in 1..Len(ReadDir(node))}
    ELSE {node}

Reach(p) == UNION {Below(p[j]) : j \in 1..Len(p)}

NoFault == [node |-> <<"", 0>>, kind |-> "none"]

\* The failures a run over p can meet: open (File::open of a file, read_dir
\* of a directory) and write (a file.write after the truncating open).
Faults(p) ==
    {NoFault} \cup {[node |-> n, kind |-> "open"] : n \in Reach(p)}
              \cup {[node |-> n, kind |-> "write"] : n \in Reach(p) \cap Files}

FailsAt(node, kind) == fault.node = node /\ fault.kind = kind

\* The calls of Fisher::new the runs are started with: (algorithm,
\* block_size) for Blowfish as main sets them, for Threefish-256, for
\* Threefish with the width 48, and for an algorithm that does not exist.
Configs == {<<0, 8>>, <<2, 32>>, <<2, 48>>, <<3, 32>>}

(***************************************************************************)
(* modify_file as the walker's tasks run it: the read loop in one step     *)
(* (the blocks are kept in memory), the truncating open, the write loop.   *)
(***************************************************************************)
RECURSIVE ReadAll(_, _, _, _, _)
\* The read loop: the transformed blocks of the content from offset p on.
ReadAll(bytes, p, B, c, dir) ==
    LET chunk == ReadChunk(bytes, p, B)
    IN  IF AtEof(chunk) THEN <<>>
        ELSE <<CryptBlock(c, dir, chunk.buffer).block>>
                \o ReadAll(bytes, p + chunk.bytes_read, B, c, dir)

\* clone_from_slice panics on the first block when the widths differ.
ReadPanics(bytes, B, c) == bytes # <<>> /\ c.width # B

RECURSIVE WriteAll(_, _)
\* The write loop from index j on: what it appends to the file.
WriteAll(blocks, j) ==
    IF j > Len(blocks) THEN <<>>
    ELSE IF IsLastBlock(blocks, j) THEN Truncate(blocks[j])
    ELSE blocks[j] \o WriteAll(blocks, j + 1)

(***************************************************************************)
(* Spec: main.                                                             *)
(***************************************************************************)
\* The state of the process before Fisher::new, whatever its arguments.
InitRun ==
    /\ pc = "new"
    /\ block_size = 0
    /\ crypt = FALSE
    /\ fisher = <<>>
    /\ path = <<>>
    /\ threads = <<>>
    /\ idx = 1
    /\ mblocks = <<>>
    /\ joining = 0
    /\ mutex = Free
    /\ units = <<>>
    /\ content = [f \in Files |-> InitContent(f)]
    /\ err = "none"
    /\ calls = [f \in Files |-> 0]
    /\ joined = {}
    /\ disk = <<>>
    /\ orig = <<>>
    /\ start = <<>>
    /\ mpc = "none"
    /\ pos = 0
    /\ handed = <<>>
    /\ modified_blocks = <<>>
    /\ widx = 0
    /\ pass = 0
    /\ buffer = <<>>
    /\ ret = "none"

Init ==
    /\ args \in {[alg |-> cf[1], block_size |-> cf[2], passphrase |-> pw,
                  crypt |-> dir, path |-> ps] :
                    cf \in Configs, pw \in Passphrases, dir \in BOOLEAN,
                    ps \in PathSets}
    /\ fault \in Faults(args.path)
    /\ InitRun

\* Fisher::new (fish.rs 27-48) as main calls it (main.rs 120-121): the
\* error of generate_key leaves main before run.
FisherNew ==
    /\ pc = "new"
    /\ LET r == GenerateKey(args.alg, args.block_size, args.passphrase)
       IN  IF r.ok
           THEN /\ block_size' = args.block_size
                /\ crypt' = args.crypt
                /\ fisher' = r.fisher
                /\ path' = args.path
                /\ threads' = <<>>
                /\ pc' = "run"
                /\ UNCHANGED err
           ELSE /\ pc' = "new_err"
                /\ err' = r.err
                /\ UNCHANGED fvars
    /\ UNCHANGED <<evars, bvars, args, idx, mblocks, joining, mutex, units, content,
                   fault, calls, joined>>

(***************************************************************************)
(* Spec: Fisher::run on the main thread.                                   *)
(***************************************************************************)
OpenFails(f) == FailsAt(f, "open")

\* file.write fails: there is a write only when there is a block.
WriteFails(f, blocks) == FailsAt(f, "write") /\ blocks # <<>>

\* A spawned thread running iter_dir(d): the index of its loop over read_dir,
\* its position, the modified_blocks of its modify_file, and (history)
\* whether the main thread was blocked in a join when the unit was pushed.
NewUnit(d) ==
    [dir |-> d, cur |-> 0, st |-> "spawned", blocks |-> <<>>,
     in_join |-> (pc = "join")]

\* A mutant of Panicked: the failing unit ends the process, and with it
\* every unit still running.
PanickedExits(us, u) ==
    [v \in 1..Len(us) |->
        IF v = u THEN [us[v] EXCEPT !.st = "panicked"]
        ELSE IF us[v].st \in {"done", "panicked"} THEN us[v]
        ELSE [us[v] EXCEPT !.st = "killed"]]

\* .expect("Failed to run directory") on the Err of iter_dir: the thread
\* of unit u panics; no other thread is touched.
Panicked(us, u) == [us EXCEPT ![u].st = "panicked"]

\* A mutant of Propagate: the error of a top-level modify_file is dropped
\* and the loop goes on to the next path.
Swallow ==
    /\ pc' = "run"
    /\ idx' = idx + 1
    /\ UNCHANGED err

\* A mutant of Propagate: the error is kept until the drain loop has joined
\* the units.
PropagateAfterDrain ==
    /\ pc' = "drain"
    /\ err' = "Io"
    /\ UNCHANGED idx

\* self.modify_file(&path)?  returns the error from run.
Propagate ==
    /\ pc' = "run_err"
    /\ err' = "Io"
    /\ UNCHANGED idx

\* The directory arm of the loop: self.threads.lock().unwrap()
RunLock ==
    /\ pc = "run"
    /\ idx <= Len(path)
    /\ IsDir(path[idx])
    /\ mutex = Free
    /\ mutex' = HeldByMain
    /\ pc' = "spawn"
    /\ UNCHANGED <<fvars, evars, bvars, args, idx, mblocks, joining, units, content,
                   fault, err, calls, joined>>

\* A mutant of RunSpawn: the guard is kept after the push.
RunSpawnHold ==
    /\ pc = "spawn"
    /\ units' = Append(units, NewUnit(path[idx]))
    /\ threads' = Append(threads, Len(units) + 1)
    /\ idx' = idx + 1
    /\ pc' = "run"
    /\ UNCHANGED <<block_size, crypt, fisher, path, evars, bvars, args, mblocks,
                   joining, mutex, content, fault, err, calls, joined>>

\* A mutant of RunSpawn: the directory is dispatched to two threads.
RunSpawnTwice ==
    /\ pc = "spawn"
    /\ units' = Append(Append(units, NewUnit(path[idx])), NewUnit(path[idx]))
    /\ threads' = Append(Append(threads, Len(units) + 1), Len(units) + 2)
    /\ mutex' = Free
    /\ idx' = idx + 1
    /\ pc' = "run"
    /\ UNCHANGED <<block_size, crypt, fisher, path, evars, bvars, args, mblocks,
                   joining, content, fault, err, calls, joined>>

\* threads.push(std::thread::spawn(..)), and the guard dropped.
RunSpawn ==
    /\ pc = "spawn"
    /\ units' = Append(units, NewUnit(path[idx]))
    /\ threads' = Append(threads, Len(units) + 1)
    /\ mutex' = Free
    /\ idx' = idx + 1
    /\ pc' = "run"
    /\ UNCHANGED <<block_size, crypt, fisher, path, evars, bvars, args, mblocks,
                   joining, content, fault, err, calls, joined>>

\* The file arm: modify_file on the main thread, up to the end of its read loop.
RunFileOpen ==
    /\ pc = "run"
    /\ idx <= Len(path)
    /\ ~IsDir(path[idx])
    /\ calls' = [calls EXCEPT ![path[idx]] = @ + 1]
    /\ IF OpenFails(path[idx])
       THEN Propagate /\ UNCHANGED mblocks
       ELSE IF ReadPanics(content[path[idx]], block_size, fisher)
       THEN pc' = "panic" /\ err' = "Panic" /\ UNCHANGED <<idx, mblocks>>
       ELSE /\ mblocks' = ReadAll(content[path[idx]], 0, block_size, fisher, crypt)
            /\ pc' = "reopen"
            /\ UNCHANGED <<idx, err>>
    /\ UNCHANGED <<fvars, evars, bvars, args, joining, mutex, units, content, fault,
                   joined>>

\* The truncating open of the main thread's modify_file.
RunFileReopen ==
    /\ pc = "reopen"
    /\ content' = [content EXCEPT ![path[idx]] = <<>>]
    /\ pc' = "write"
    /\ UNCHANGED <<fvars, evars, bvars, args, idx, mblocks, joining, mutex, units,
                   fault, err, calls, joined>>

\* The write loop of the main thread's modify_file, and its return.
RunFileWrite ==
    /\ pc = "write"
    /\ IF WriteFails(path[idx], mblocks)
       THEN Propagate /\ UNCHANGED content
       ELSE /\ content' = [content EXCEPT ![path[idx]] = WriteAll(mblocks, 1)]
            /\ idx' = idx + 1
            /\ pc' = "run"
            /\ UNCHANGED err
    /\ mblocks' = <<>>
    /\ UNCHANGED <<fvars, evars, bvars, args, joining, mutex, units, fault, calls,
                   joined>>

\* The drain loop: self.threads.lock().unwrap()
DrainLock ==
    /\ \/ pc = "run" /\ idx > Len(path)
       \/ pc = "drain"
    /\ mutex = Free
    /\ mutex' = HeldByMain
    /\ pc' = "drain_locked"
    /\ UNCHANGED <<fvars, evars, bvars, args, idx, mblocks, joining, units, content,
                   fault, err, calls, joined>>

\* A mutant of DrainTake: the guard is not dropped before the join.
DrainTakeHold ==
    /\ pc = "drain_locked"
    /\ IF Len(threads) > 0
       THEN /\ joining' = Head(threads)
            /\ threads' = Tail(threads)
            /\ pc' = "join"
            /\ UNCHANGED mutex
       ELSE /\ pc' = "run_ok"
            /\ mutex' = Free
            /\ UNCHANGED <<joining, threads>>
    /\ UNCHANGED <<block_size, crypt, fisher, path, evars, bvars, args, idx,
                   mblocks, units, content, fault, err, calls, joined>>

\* A mutant of DrainTake: the handle is read but left in the registry.
DrainTakeKeep ==
    /\ pc = "drain_locked"
    /\ mutex' = Free
    /\ IF Len(threads) > 0
       THEN /\ joining' = Head(threads)
            /\ pc' = "join"
            /\ UNCHANGED threads
       ELSE /\ pc' = "run_ok"
            /\ UNCHANGED <<joining, threads>>
    /\ UNCHANGED <<block_size, crypt, fisher, path, evars, bvars, args, idx,
                   mblocks, units, content, fault, err, calls, joined>>

\* threads.len() > 0: remove(0) and drop the guard; else leave the loop,
\* which drops the guard, and return Ok(()).
DrainTake ==
    /\ pc = "drain_locked"
    /\ mutex' = Free
    /\ IF Len(threads) > 0
       THEN /\ joining' = Head(threads)
            /\ threads' = Tail(threads)
            /\ pc' = "join"
       ELSE /\ pc' = "run_ok"
            /\ UNCHANGED <<joining, threads>>
    /\ UNCHANGED <<block_size, crypt, fisher, path, evars, bvars, args, idx, mblocks,
                   units, content, fault, err, calls, joined>>

\* A mutant of Join: the handle is dropped without waiting for the unit.
JoinNoWait ==
    /\ pc = "join"
    /\ joined' = joined \cup {joining}
    /\ joining' = 0
    /\ pc' = "drain"
    /\ UNCHANGED <<fvars, evars, bvars, args, idx, mblocks, mutex, units, content,
                   fault, err, calls>>

\* A mutant of Join: the result of join is not unwrapped.
JoinIgnoreErr ==
    /\ pc = "join"
    /\ units[joining].st \in {"done", "panicked"}
    /\ joined' = joined \cup {joining}
    /\ joining' = 0
    /\ pc' = "drain"
    /\ UNCHANGED <<fvars, evars, bvars, args, idx, mblocks, mutex, units, content,
                   fault, err, calls>>

\* thread.join().unwrap(): blocks until the unit has ended; the Err of a
\* unit that panicked makes unwrap panic on the main thread.
Join ==
    /\ pc = "join"
    /\ units[joining].st \in {"done", "panicked"}
    /\ joined' = joined \cup {joining}
    /\ joining' = 0
    /\ IF units[joining].st = "done"
       THEN pc' = "drain" /\ UNCHANGED err
       ELSE pc' = "panic" /\ err' = "Panic"
    /\ UNCHANGED <<fvars, evars, bvars, args, idx, mblocks, mutex, units, content,
                   fault, calls>>

\* main returns (run's Ok or Err, or the error of Fisher::new) or unwinds
\* from a panic: the process ends, and with it every thread still running.
ProcessExit ==
    /\ pc \in {"new_err", "run_ok", "run_err", "panic"}
    /\ pc' = "exited"
    /\ units' = [u \in 1..Len(units) |->
                    IF units[u].st \in {"done", "panicked"} THEN units[u]
                    ELSE [units[u] EXCEPT !.st = "killed"]]
    /\ UNCHANGED <<fvars, evars, bvars, args, idx, mblocks, joining, mutex, content,
                   fault, err, calls, joined>>

(***************************************************************************)
(* Spec: Fisher::iter_dir on a spawned unit u.                             *)
(***************************************************************************)
Entry(u) == ReadDir(units[u].dir)[units[u].cur]

\* The for loop goes to the next entry; after the last one iter_dir returns
\* Ok(()) and the thread ends.
AfterEntry(r) ==
    IF r.cur + 1 > Len(ReadDir(r.dir))
    THEN [r EXCEPT !.cur = r.cur + 1, !.st = "done", !.blocks = <<>>]
    ELSE [r EXCEPT !.cur = r.cur + 1, !.st = "iter", !.blocks = <<>>]

\* A mutant of AfterSpawn: iter_dir returns once it has spawned a unit.
AfterSpawnReturn(r) == [r EXCEPT !.st = "done"]

\* After the push of a subdirectory's unit the loop continues.
AfterSpawn(r) == AfterEntry(r)

\* A mutant of IsSkipped: ne for eq.
IsSkippedNe(e) == FileName(e) # ".DS_Store"

\* module.path().file_name().unwrap().eq(".DS_Store")
IsSkipped(e) == FileName(e) = ".DS_Store"

\* fs::read_dir(path)?  under expect: an error panics the unit.
UStart(u) ==
    /\ units[u].st = "spawned"
    /\ units' = IF OpenFails(units[u].dir) THEN Panicked(units, u)
                 ELSE [units EXCEPT ![u] = AfterEntry(@)]
    /\ UNCHANGED <<fvars, evars, bvars, args, pc, idx, mblocks, joining, mutex,
                   content, fault, err, calls, joined>>

\* A subdirectory: self.threads.lock().unwrap()
ULock(u) ==
    /\ units[u].st = "iter"
    /\ IsDir(Entry(u))
    /\ mutex = Free
    /\ mutex' = HeldBy(u)
    /\ units' = [units EXCEPT ![u].st = "locked"]
    /\ UNCHANGED <<fvars, evars, bvars, args, pc, idx, mblocks, joining, content,
                   fault, err, calls, joined>>

\* A mutant of USpawn: two threads are spawned and pushed for the
\* subdirectory.
USpawnTwice(u) ==
    /\ units[u].st = "locked"
    /\ units' = Append(Append([units EXCEPT ![u] = AfterSpawn(@)],
                              NewUnit(Entry(u))), NewUnit(Entry(u)))
    /\ threads' = Append(Append(threads, Len(units) + 1), Len(units) + 2)
    /\ mutex' = Free
    /\ UNCHANGED <<block_size, crypt, fisher, path, evars, bvars, args, pc, idx,
                   mblocks, joining, content, fault, err, calls, joined>>

\* threads.push(std::thread::spawn(..)), and the guard dropped.
USpawn(u) ==
    /\ units[u].st = "locked"
    /\ units' = Append([units EXCEPT ![u] = AfterSpawn(@)], NewUnit(Entry(u)))
    /\ threads' = Append(threads, Len(units) + 1)
    /\ mutex' = Free
    /\ UNCHANGED <<block_size, crypt, fisher, path, evars, bvars, args, pc, idx,
                   mblocks, joining, content, fault, err, calls, joined>>

\* A file named .DS_Store: continue.
USkip(u) ==
    /\ units[u].st = "iter"
    /\ ~IsDir(Entry(u))
    /\ IsSkipped(Entry(u))
    /\ units' = [units EXCEPT ![u] = AfterEntry(@)]
    /\ UNCHANGED <<fvars, evars, bvars, args, pc, idx, mblocks, joining, mutex,
                   content, fault, err, calls, joined>>

\* Any other file: modify_file on the unit, up to the end of its read loop.
UFileOpen(u) ==
    /\ units[u].st = "iter"
    /\ ~IsDir(Entry(u))
    /\ ~IsSkipped(Entry(u))
    /\ calls' = [calls EXCEPT ![Entry(u)] = @ + 1]
    /\ units' = IF OpenFails(Entry(u))
                    \/ ReadPanics(content[Entry(u)], block_size, fisher)
                 THEN Panicked(units, u)
                 ELSE [units EXCEPT ![u].st = "reopen",
                                    ![u].blocks = ReadAll(content[Entry(u)], 0,
                                                          block_size, fisher, crypt)]
    /\ UNCHANGED <<fvars, evars, bvars, args, pc, idx, mblocks, joining, mutex,
                   content, fault, err, joined>>

\* The truncating open of the unit's modify_file.
UFileReopen(u) ==
    /\ units[u].st = "reopen"
    /\ content' = [content EXCEPT ![Entry(u)] = <<>>]
    /\ units' = [units EXCEPT ![u].st = "write"]
    /\ UNCHANGED <<fvars, evars, bvars, args, pc, idx, mblocks, joining, mutex,
                   fault, err, calls, joined>>

\* The write loop of the unit's modify_file; its error panics the unit.
UFileWrite(u) ==
    /\ units[u].st = "write"
    /\ IF WriteFails(Entry(u), units[u].blocks)
       THEN /\ units' = Panicked(units, u)
            /\ UNCHANGED content
       ELSE /\ content' = [content EXCEPT ![Entry(u)] = WriteAll(units[u].blocks, 1)]
            /\ units' = [units EXCEPT ![u] = AfterEntry(@)]
    /\ UNCHANGED <<fvars, evars, bvars, args, pc, idx, mblocks, joining, mutex,
                   fault, err, calls, joined>>

Unit(u) ==
    \/ UStart(u)
    \/ ULock(u)
    \/ USpawn(u)
    \/ USkip(u)
    \/ UFileOpen(u)
    \/ UFileReopen(u)
    \/ UFileWrite(u)

Next ==
    \/ FisherNew
    \/ RunLock
    \/ RunSpawn
    \/ RunFileOpen
    \/ RunFileReopen
    \/ RunFileWrite
    \/ DrainLock
    \/ DrainTake
    \/ Join
    \/ ProcessExit
    \/ \E u \in 1..Len(units) : pc # "exited" /\ Unit(u)

Spec == Init /\ [][Next]_vars

(***************************************************************************)
(* LiveSpec: Spec with the fairness of the scheduler: the main thread and  *)
(* every spawned thread take a step that stays possible.                   *)
(***************************************************************************)
\* A step of the main thread.
MainStep ==
    \/ FisherNew
    \/ RunLock
    \/ RunSpawn
    \/ RunFileOpen
    \/ RunFileReopen
    \/ RunFileWrite
    \/ DrainLock
    \/ DrainTake
    \/ Join
    \/ ProcessExit

\* A step of the thread of unit u, while the process lives.
UnitStep(u) == u <= Len(units) /\ pc # "exited" /\ Unit(u)

\* No run spawns more units than the tree has directories.
MaxUnits == Cardinality(Dirs)

\* The runs of Blowfish on every Path Set, in both directions, that meet no
\* I/O failure.
InitLive ==
    /\ args \in {[alg |-> 0, block_size |-> 8, passphrase |-> "pw",
                  crypt |-> dir, path |-> ps] :
                    dir \in BOOLEAN, ps \in PathSets}
    /\ fault = NoFault
    /\ InitRun

LiveSpec ==
    /\ InitLive
    /\ [][Next]_vars
    /\ WF_vars(MainStep)
    /\ \A u \in 1..MaxUnits : WF_vars(UnitStep(u))

(***************************************************************************)
(* SpecKey: Fisher::new on every algorithm number, a range of block sizes  *)
(* and passphrase arguments that are literals or name files.               *)
(***************************************************************************)
KeyAlgs == 0..3

KeyWidths == {8, 16, 32, 48, 64, 128}

\* Two literals, two files that can be read (keyfile2 holds the text "pw")
\* and one that cannot.
KeyPassphrases == {"pw", "secret", "keyfile", "keyfile2", "badfile"}

InitKey ==
    /\ args \in {[alg |-> a, block_size |-> w, passphrase |-> pw,
                  crypt |-> TRUE, path |-> <<FileT>>] :
                    a \in KeyAlgs, w \in KeyWidths, pw \in KeyPassphrases}
    /\ fault = NoFault
    /\ InitRun

NextKey == FisherNew

SpecKey == InitKey /\ [][NextKey]_vars

(***************************************************************************)
(* Claims about the file transform engine, checked under SpecFile.         *)
(***************************************************************************)
RECURSIVE Flatten(_)
Flatten(blocks) ==
    IF blocks = <<>> THEN <<>> ELSE Head(blocks) \o Flatten(Tail(blocks))

CeilDiv(a, b) == (a + b - 1) \div b

\* The content ends in a zero byte (so does its last block, partial or not).
EndsInZero(bytes) == bytes # <<>> /\ bytes[Len(bytes)] = 0

\* C3: a file whose last block has no trailing zero byte, encrypted and then
\* decrypted with the same key, holds its first content again.  (Stated for
\* contents with no trailing zero byte at all: the claim's own condition, on
\* the last partial block only, admits these and more.)
C3_RoundTrip ==
    (pass = 2 /\ mpc = "ok" /\ ~EndsInZero(orig)) => disk = orig

\* C4: the write phase leaves b1 ++ ... ++ b(n-1) ++ strip(bn) in the file,
\* also when an earlier block has the bytes of the last one.
C4_WritePhase ==
    (mpc = "ok" /\ modified_blocks # <<>>)
        => disk = Flatten(SubSeq(modified_blocks, 1, Len(modified_blocks) - 1))
                    \o Truncate(modified_blocks[Len(modified_blocks)])

\* C5: once the read loop has ended on a file of L bytes, ceil(L/B) blocks
\* were handed to the cipher and collected; every block but the last holds
\* B bytes of the file and no padding, the last holds the rest followed by
\* zeros; L = k*B gives k full blocks and L = 0 gives none.
C5_BlockCount ==
    mpc \in {"reopen", "write", "ok"} =>
        LET L == Len(start)
            B == block_size
            n == Len(handed)
        IN  /\ n = CeilDiv(L, B)
            /\ Len(modified_blocks) = n
            /\ \A j \in 1..n :
                  /\ handed[j].bytes_read = IF j < n THEN B ELSE L - (n - 1) * B
                  /\ handed[j].bytes_read >= 1
                  /\ handed[j].buffer =
                        [x \in 1..B |-> IF (j - 1) * B + x <= L
                                        THEN start[(j - 1) * B + x] ELSE 0]
            /\ (L % B = 0 => n * B = L)
            /\ (L = 0 => handed = <<>>)

\* A file of two full blocks has been read to its end.
C5_Witness ==
    /\ mpc = "ok"
    /\ block_size = 2
    /\ Len(start) = 2 * block_size
    /\ Len(handed) = 2

(***************************************************************************)
(* Claims about main, run and the units, checked under Spec.               *)
(***************************************************************************)
UnitIds == 1..Len(units)

\* run has returned Ok(()): before main returns, and after.
RunSucceeded == pc = "run_ok" \/ (pc = "exited" /\ err = "none")

\* What one call of modify_file leaves in a file that held bytes.
ModifyFileResult(bytes) ==
    WriteAll(ReadAll(bytes, 0, block_size, fisher, crypt), 1)

\* C1: when run returns success, every unit ever spawned has ended and has
\* been joined and the registry is empty, in every interleaving of the drain
\* loop with the units.
C1_AllJoinedOnSuccess ==
    pc = "run_ok" =>
        /\ threads = <<>>
        /\ joining = 0
        /\ \A u \in UnitIds : units[u].st = "done" /\ u \in joined

\* run has returned success after units were pushed while the main thread
\* was blocked in a join.
C1_Witness ==
    /\ pc = "run_ok"
    /\ Len(units) >= 3
    /\ \E u \in UnitIds : units[u].in_join

\* C2: the chain of Depth nested directories with one file each, given as a
\* single path and walked without I/O failure: no file of it is passed to
\* modify_file twice, and when run returns each was passed once and holds
\* the transform of what it held.
C2_ChainExactlyOnce ==
    (args.path = <<ChainDir(1)>> /\ fault = NoFault) =>
        /\ \A k \in 1..Depth : calls[ChainFile(k)] <= 1
        /\ pc = "run_ok" =>
              \A k \in 1..Depth :
                  /\ calls[ChainFile(k)] = 1
                  /\ content[ChainFile(k)] = ModifyFileResult(InitContent(ChainFile(k)))

\* The run over the chain has returned, a unit for each of its directories.
C2_Witness ==
    /\ pc = "run_ok"
    /\ args.path = <<ChainDir(1)>>
    /\ fault = NoFault
    /\ Len(units) = Depth

\* Threefish was asked for with a width that is none of 32, 64, 128, and
\* Fisher::new has been called.
BadThreefishWidth ==
    /\ args.alg = 2
    /\ args.block_size \notin {32, 64, 128}
    /\ pc # "new"

\* No unit was ever spawned, no file passed to modify_file, no byte changed.
NothingWalked ==
    /\ units = <<>>
    /\ threads = <<>>
    /\ \A f \in Files : calls[f] = 0 /\ content[f] = InitContent(f)

\* C6 as claimed: Threefish with a width such as 48 makes key derivation
\* return the invalid-block-size error; construction fails, run is never
\* started and no file changes.
C6_InvalidBlockSize ==
    BadThreefishWidth =>
        /\ err = "InvalidBlockSize"
        /\ pc \in {"new_err", "exited"}
        /\ NothingWalked

\* C6 as amended: the error is the invalid-block-size error unless the
\* passphrase names a regular file that cannot be read, and then it is the
\* I/O error of reading it; either way construction fails, run is never
\* started and no file changes.
C6_ConstructionFails ==
    BadThreefishWidth =>
        /\ err = IF IsPassFile(args.passphrase) /\ ~PassFileReadable(args.passphrase)
                 THEN "Io" ELSE "InvalidBlockSize"
        /\ pc \in {"new_err", "exited"}
        /\ NothingWalked

\* Fisher::new has failed on Threefish with the width 48.
C6_Witness ==
    /\ pc = "new_err"
    /\ args.alg = 2
    /\ args.block_size = 48
    /\ err = "InvalidBlockSize"
    /\ Len(args.path) > 0

\* The main thread is at a top-level file whose modify_file fails in the
\* step it takes next.
MainFileFailsNext ==
    \/ /\ pc = "run"
       /\ idx <= Len(path)
       /\ ~IsDir(path[idx])
       /\ OpenFails(path[idx])
    \/ /\ pc = "write"
       /\ WriteFails(path[idx], mblocks)

\* No path after the one at idx has been dispatched.
LaterPathsUntouched ==
    \A j \in (idx + 1)..Len(path) :
        /\ \A u \in UnitIds : units[u].dir # path[j]
        /\ ~IsDir(path[j]) =>
              calls[path[j]] = 0 /\ content[path[j]] = InitContent(path[j])

\* C7: a failure of modify_file on a top-level file is returned by run at
\* once: the step that fails is the main thread's and ends run with the
\* error; no later path has been or will be dispatched; run never reports
\* success after it.
C7_TopLevelFailFast ==
    /\ [](pc = "run_err" =>
            /\ err = "Io"
            /\ idx \in 1..Len(path)
            /\ ~IsDir(path[idx])
            /\ fault.node = path[idx]
            /\ calls[path[idx]] = 1
            /\ LaterPathsUntouched)
    /\ [][(MainFileFailsNext /\ pc' # pc) => (pc' = "run_err" /\ idx' = idx)]_vars
    /\ [][pc = "run_err" =>
            /\ pc' \in {"run_err", "exited"}
            /\ idx' = idx
            /\ err' = err]_vars

\* run has returned the error of its first path, a file, and the directory
\* that comes after it has no unit.
C7_Witness ==
    /\ pc = "run_err"
    /\ path = <<FileT, DirM>>
    /\ idx = 1
    /\ units = <<>>

SomeUnitPanicked == \E u \in UnitIds : units[u].st = "panicked"

\* C8 as claimed: the failure of a spawned unit is not surfaced to the caller
\* of run; the main thread goes on draining and run ends in success.
C8_NotSurfaced ==
    SomeUnitPanicked => (pc # "panic" /\ err = "none")

\* C8 as amended: the failure of a spawned unit is not returned by run as an
\* error value, but it is surfaced: the unit panics, and the join of that
\* unit panics the main thread (join().unwrap()).  run then never returns
\* success, and the units still registered are not joined.
C8_PanicAtJoin ==
    /\ [](SomeUnitPanicked => (~RunSucceeded /\ err \in {"none", "Panic"}))
    /\ [][(pc' = "panic" /\ pc # "panic") =>
            /\ pc = "join"
            /\ units[joining].st = "panicked"
            /\ threads' = threads]_vars
    /\ [][(pc = "join" /\ units[joining].st = "panicked" /\ pc' # pc) =>
            pc' = "panic"]_vars
    /\ [][pc = "panic" => (joined' = joined /\ pc' \in {"panic", "exited"})]_vars

\* The join of a failed unit has panicked the main thread while other units
\* are still registered.
C8_Witness ==
    /\ pc = "panic"
    /\ threads # <<>>
    /\ \E u \in UnitIds : units[u].st = "panicked" /\ u \in joined

SomeUnitKilled == \E u \in UnitIds : units[u].st = "killed"

Running(r) == r.st \notin {"done", "panicked", "killed"}

\* C9 as claimed: after the failure of a unit, every other unit still runs
\* to its own completion or its own failure.
C9_NoUnitStopped ==
    SomeUnitPanicked => ~SomeUnitKilled

\* C9 as amended: the failure of a unit changes no other unit, nothing
\* retries the failed unit or spawns a second unit for its directory, and a
\* running unit is stopped by one thing only: the end of the process, which
\* follows the end of the main thread (its panic at the join of the failed
\* unit, or its return).
C9_StoppedOnlyByExit ==
    /\ [][\A v \in UnitIds :
            /\ (Running(units[v]) /\ units'[v].st = "killed") =>
                  (pc' = "exited" /\ pc # "exited")
            /\ ~Running(units[v]) => units'[v] = units[v]
            /\ (units[v].st # "panicked" /\ units'[v].st = "panicked") =>
                  /\ \A w \in UnitIds \ {v} : units'[w] = units[w]
                  /\ pc' = pc
                  /\ threads' = threads]_vars
    /\ [](\A v, w \in UnitIds : units[v].dir = units[w].dir => v = w)
    /\ [](SomeUnitKilled => (pc = "exited" /\ err # "none"))

\* A unit has failed, the main thread has panicked at its join, and the end
\* of the process has stopped a unit that was still running.
C9_Witness ==
    /\ pc = "exited"
    /\ SomeUnitPanicked
    /\ SomeUnitKilled
    /\ \E v \in UnitIds : units[v].st = "done"

IsDsStore(f) == FileName(f) = ".DS_Store"

InPathSet(node) == \E j \in 1..Len(args.path) : args.path[j] = node

\* C10 as claimed: no file named .DS_Store is ever passed to modify_file,
\* be it the child of a walked directory or a path of the Path Set.
C10_DsStoreNeverPassed ==
    \A f \in Files :
        IsDsStore(f) => (calls[f] = 0 /\ content[f] = InitContent(f))

\* The entries of the directory of a unit that has returned were all
\* processed: a unit spawned for each subdirectory, modify_file called on
\* each file that is not named .DS_Store.
EntriesProcessed(r) ==
    \A j \in 1..Len(ReadDir(r.dir)) :
        LET e == ReadDir(r.dir)[j]
        IN  IF IsDir(e) THEN \E v \in UnitIds : units[v].dir = e
            ELSE IsDsStore(e) \/ calls[e] >= 1

\* C10 as amended: a .DS_Store that is the child of a walked directory is
\* never passed to modify_file and keeps its content, and the entries after
\* it are processed all the same; a .DS_Store that is itself a path of the
\* Path Set is passed to modify_file like any other file.
C10_DsStoreSkippedInDir ==
    /\ \A f \in Files :
          (IsDsStore(f) /\ ~InPathSet(f)) =>
              (calls[f] = 0 /\ content[f] = InitContent(f))
    /\ \A u \in UnitIds : units[u].st = "done" => EntriesProcessed(units[u])
    /\ \A j \in 1..Len(path) :
          (~IsDir(path[j]) /\ idx > j) => calls[path[j]] = 1

\* The unit of m/ has returned: .DS_Store, its first entry, was skipped and
\* the file after it was transformed.
C10_Witness ==
    /\ \E u \in UnitIds : units[u].dir = DirM /\ units[u].st = "done"
    /\ calls[DsInM] = 0
    /\ calls[FileM] = 1
    /\ \E v \in UnitIds : units[v].dir = DirB

(***************************************************************************)
(* Claims about key derivation, checked under SpecKey.                     *)
(***************************************************************************)
\* The text the passphrase argument stands for: what the file holds when the
\* argument names a regular file, the argument itself when it does not.
TextOf(passphrase) ==
    IF IsPassFile(passphrase) THEN PassFileText(passphrase) ELSE passphrase

\* What was hashed first of all to make a slice of a key.
HashedText(part) == part.digest[Len(part.digest)]

\* Fisher::new has returned the engine.
Derived == pc = "run"

\* C11: a passphrase argument that names a regular file holding s gives the
\* key material of the literal s, an argument that names no regular file is
\* hashed as it is, and the file is read before anything is hashed: every
\* digest of the key is a digest of the text, none of the path.
C11_PassphraseAsFile ==
    Derived =>
        /\ \A j \in 1..Len(fisher.key) :
              HashedText(fisher.key[j]) = TextOf(args.passphrase)
        /\ fisher.k = KeyIndex(TextOf(args.passphrase))
        /\ ~IsPassFile(TextOf(args.passphrase)) =>
              fisher = KeyOfText(args.alg, args.block_size,
                                 TextOf(args.passphrase)).fisher

\* The Threefish-1024 key was derived from the file that holds "pw".
C11_Witness ==
    /\ Derived
    /\ args.passphrase = "keyfile2"
    /\ fisher.variant = "Threefish1024"
    /\ HashedText(fisher.key[2]) = "pw"

\* C12: the Threefish-1024 key is H512(p) ++ H512(H512(p)); the Blowfish key
\* is the first 56 bytes of H512(p), the Twofish and Threefish-256 keys are
\* H256(p), the Threefish-512 key is H512(p); the length of the key is the
\* key size of the cipher.
C12_KeyMaterial ==
    Derived =>
        LET p == TextOf(args.passphrase)
            key == fisher.key
        IN  /\ KeyLen(key) = KeySize(fisher.variant)
            /\ CASE fisher.variant = "Threefish1024" ->
                        /\ args.alg = 2 /\ args.block_size = 128
                        /\ key = << [digest |-> <<"H512", p>>, take |-> 64],
                                    [digest |-> <<"H512", "H512", p>>, take |-> 64] >>
                 [] fisher.variant = "Threefish512" ->
                        /\ args.alg = 2 /\ args.block_size = 64
                        /\ key = << [digest |-> <<"H512", p>>, take |-> 64] >>
                 [] fisher.variant = "Threefish256" ->
                        /\ args.alg = 2 /\ args.block_size = 32
                        /\ key = << [digest |-> <<"H256", p>>, take |-> 32] >>
                 [] fisher.variant = "Twofish" ->
                        /\ args.alg = 1
                        /\ key = << [digest |-> <<"H256", p>>, take |-> 32] >>
                 [] fisher.variant = "Blowfish" ->
                        /\ args.alg = 0
                        /\ key = << [digest |-> <<"H512", p>>, take |-> 56] >>

\* The Threefish-1024 key was derived from a literal passphrase.
C12_Witness ==
    /\ Derived
    /\ args.alg = 2
    /\ args.block_size = 128
    /\ args.passphrase = "secret"
    /\ KeyLen(fisher.key) = 128

(***************************************************************************)
(* Claims about the cipher selector, checked under SpecBlock.              *)
(***************************************************************************)
\* encrypt_block or decrypt_block has been called with a buffer that has not
\* the Block Width of the cipher (the length is what it was before the call:
\* a panic leaves the buffer, a cipher keeps the length).
CalledWithWrongLength == ret # "none" /\ Len(buffer) # fisher.width

\* C13: encrypt_block and decrypt_block called with a buffer whose length is
\* not the Block Width return a block-size-mismatch error as a value.
C13_MismatchIsErrValue ==
    CalledWithWrongLength => ret = "Err(BlockSizeMismatch)"

(***************************************************************************)
(* Claims about the read loop with short reads, checked under SpecShort.   *)
(***************************************************************************)
RECURSIVE ChunkOffset(_, _)
\* The file offset of the j-th chunk handed to the cipher.
ChunkOffset(chunks, j) ==
    IF j <= 1 THEN 0 ELSE ChunkOffset(chunks, j - 1) + chunks[j - 1].bytes_read

\* C15: every buffer passed to encrypt_block or decrypt_block has exactly
\* block_size bytes, whatever the length of the file and whatever file.read
\* returned: the bytes read are at its front, in file order, and the rest
\* is zero; so the cipher never meets a buffer of another length.
C15_BufferIsBlockWidth ==
    /\ mpc # "panic"
    /\ \A j \in 1..Len(handed) :
          LET c == handed[j]
              off == ChunkOffset(handed, j)
          IN  /\ Len(c.buffer) = block_size
              /\ c.bytes_read \in 1..block_size
              /\ off + c.bytes_read <= Len(start)
              /\ \A x \in 1..block_size :
                    c.buffer[x] = IF x <= c.bytes_read THEN start[off + x] ELSE 0
    /\ \A j \in 1..Len(modified_blocks) : Len(modified_blocks[j]) = block_size

\* A file whose length is no multiple of the width was read to its end, one
\* read of it shorter than the bytes left.
C15_Witness ==
    /\ mpc = "reopen"
    /\ block_size = 2
    /\ Len(start) = 5
    /\ handed[1].bytes_read = 1
    /\ Len(handed) >= 3

(***************************************************************************)
(* Claims about failures in modify_file, checked under SpecFault.          *)
(***************************************************************************)
IsPrefix(a, b) == Len(a) <= Len(b) /\ a = SubSeq(b, 1, Len(a))

\* C16: the file is truncated only after the read loop has ended; a failure
\* of the open, of a read, of the transform or of the truncating open leaves
\* the content as it was; a failure of a write returns the error with the
\* file holding the blocks written before it, a proper prefix of the output
\* and not the content the file had.
C16_NoRollback ==
    /\ [][disk' # disk => mpc \in {"reopen", "write"}]_vars
    /\ [][mpc' \in {"err_open", "err_read", "err_reopen", "panic"} =>
            disk' = disk]_vars
    /\ [](mpc \in {"read", "reopen", "err_read", "err_reopen", "panic"} =>
            disk = start)
    /\ [](mpc = "err_write" =>
            /\ disk = Flatten(SubSeq(modified_blocks, 1, widx - 1))
            /\ IsPrefix(disk, WriteAll(modified_blocks, 1))
            /\ Len(disk) < Len(WriteAll(modified_blocks, 1))
            /\ disk # start)

\* The write of the second block failed: the file holds the first block.
C16_Witness ==
    /\ mpc = "err_write"
    /\ widx = 2
    /\ disk # <<>>
    /\ Len(start) = 3

(***************************************************************************)
(* Claims about the registry and its lock, checked under Spec.             *)
(***************************************************************************)
\* C14 as claimed: in every state in which the main thread is blocked in a
\* join the lock of the registry is free.
C14_LockFreeInJoin ==
    pc = "join" => mutex = Free

\* Unit u is where it can take the lock: at a subdirectory of its directory.
AtSubdirectory(u) == units[u].st = "iter" /\ IsDir(Entry(u))

\* C14 as amended: the main thread never holds the lock while it is blocked
\* in a join (a unit may hold it then, for one push); whoever holds the lock
\* is between its lock and the end of one push with its spawn, or of one
\* test of the length with its remove, and its next step frees the lock; so
\* while the main thread is in a join, a unit at a subdirectory can take the
\* lock as soon as it is free.
C14_LockNotHeldAcrossJoin ==
    /\ [](pc = "join" => mutex # HeldByMain)
    /\ [](pc # "exited" =>
            /\ mutex = HeldByMain <=> pc \in {"spawn", "drain_locked"}
            /\ \A u \in 1..Len(units) :
                  mutex = HeldBy(u) <=> units[u].st = "locked")
    /\ [][(mutex = HeldByMain /\ pc' # pc) =>
            /\ mutex' = Free
            /\ \/ threads' = Append(threads, Len(units'))
               \/ threads # <<>> /\ threads' = Tail(threads)
               \/ threads = <<>> /\ threads' = threads]_vars
    /\ [][\A u \in 1..Len(units) :
            (mutex = HeldBy(u) /\ units'[u] # units[u] /\ pc' # "exited") =>
                (mutex' = Free /\ threads' = Append(threads, Len(units')))]_vars
    /\ [](\A u \in 1..Len(units) :
            (pc = "join" /\ mutex = Free /\ AtSubdirectory(u)) =>
                ENABLED ULock(u))

\* The main thread is blocked in a join while a unit holds the lock to
\* register a child.
C14_Witness ==
    /\ pc = "join"
    /\ \E u \in 1..Len(units) : mutex = HeldBy(u) /\ units[u].st = "locked"

(***************************************************************************)
(* Claims about what is spawned and where files are transformed (Spec).    *)
(***************************************************************************)
\* The directories among the first n entries of a sequence of nodes.
DirsAmong(nodes, n) == {j \in 1..n : j <= Len(nodes) /\ IsDir(nodes[j])}

RECURSIVE SubdirsPassed(_)
\* The subdirectories the first u units have gone past in their loops over
\* read_dir (a unit that holds the lock is at a subdirectory, not past it).
SubdirsPassed(u) ==
    IF u = 0 THEN 0
    ELSE SubdirsPassed(u - 1)
            + Cardinality(DirsAmong(ReadDir(units[u].dir), units[u].cur - 1))

\* The step is a step of modify_file on f taken by the main thread, which is
\* at f in the Path Set.
MainTransforms(f) ==
    /\ pc \in {"run", "reopen", "write"}
    /\ idx <= Len(path)
    /\ path[idx] = f
    /\ units' = units

\* The step is a step of modify_file on f taken by a unit that is at f in
\* its loop over the entries of its directory.
UnitTransforms(f) ==
    \E u \in 1..Len(units) :
        /\ units[u].st \in {"iter", "reopen", "write"}
        /\ Entry(u) = f
        /\ units'[u] # units[u]
        /\ \A v \in 1..Len(units) : v # u => units'[v] = units[v]
        /\ pc' = pc /\ idx' = idx

\* C17: the units ever spawned are as many as the directories reached: the
\* top-level directories dispatched plus the subdirectories the units have
\* gone past, each once; no unit is spawned for a file; and every call of
\* modify_file and every change of a file is a step of the task that
\* discovered the file: the main thread for a path of the Path Set, the unit
\* of the directory for an entry of it.
C17_OnlyDirectoriesFork ==
    /\ [](pc \notin {"new", "new_err"} =>
            Len(units) = Cardinality(DirsAmong(path, idx - 1))
                            + SubdirsPassed(Len(units)))
    /\ [](\A u \in 1..Len(units) :
            /\ IsDir(units[u].dir)
            /\ units[u].dir \in Reach(args.path)
            /\ \A v \in 1..Len(units) : units[v].dir = units[u].dir => v = u)
    /\ [](pc = "run_ok" =>
            {units[u].dir : u \in 1..Len(units)} = Reach(args.path) \cap Dirs)
    /\ [][\A f \in Files :
            (calls'[f] # calls[f] \/ content'[f] # content[f]) =>
                (MainTransforms(f) \/ UnitTransforms(f))]_vars
    /\ [][\A f \in Files :
            (calls'[f] # calls[f] /\ UnitTransforms(f)) => ~InPathSet(f)]_vars
    /\ [][\A f \in Files :
            (calls'[f] # calls[f] /\ MainTransforms(f)) => InPathSet(f)]_vars

\* run has returned over m/ and the file t: three units, one for each
\* directory, and the files of m/, a/ and b/ and the file t transformed.
C17_Witness ==
    /\ pc = "run_ok"
    /\ path = <<DirM, FileT>>
    /\ Len(units) = 3
    /\ calls[FileT] = 1
    /\ calls[FileA] = 1
    /\ calls[FileM] = 1

\* Unit u is an entry of the registry.
InRegistry(u) == \E j \in 1..Len(threads) : threads[j] = u

\* C18: a unit that was spawned and is not joined is either one entry of the
\* registry or the unit the main thread has removed and is joining, never
\* both; a unit is pushed in the step that spawns it, under the lock; the
\* entries leave the registry from the front, in the order they were pushed,
\* each once; no unit is joined twice.
C18_RegistryInvariant ==
    /\ [](\A u \in 1..Len(units) :
            /\ u \notin joined => (InRegistry(u) /\ u # joining) \/
                                  (~InRegistry(u) /\ u = joining)
            /\ u \in joined => (~InRegistry(u) /\ u # joining))
    /\ [](\A i, j \in 1..Len(threads) : i < j => threads[i] < threads[j])
    /\ [](joining # 0 <=> pc = "join")
    /\ [](joined \subseteq 1..Len(units))
    /\ [][Len(units') # Len(units) =>
            /\ Len(units') = Len(units) + 1
            /\ threads' = Append(threads, Len(units'))
            /\ mutex # Free
            /\ mutex' = Free]_vars
    /\ [][(threads' # threads /\ Len(units') = Len(units)) =>
            /\ threads # <<>>
            /\ threads' = Tail(threads)
            /\ joining' = Head(threads)
            /\ mutex = HeldByMain]_vars
    /\ [][joined' # joined =>
            /\ joining \notin joined
            /\ joined' = joined \cup {joining}
            /\ joining' = 0]_vars

\* The main thread is joining a unit, after the join of another, with a
\* unit still in the registry.
C18_Witness ==
    /\ pc = "join"
    /\ joined # {}
    /\ threads # <<>>
    /\ joining \notin joined

(***************************************************************************)
(* Termination, checked under LiveSpec.                                    *)
(***************************************************************************)
\* run is at work on a tree that no I/O call fails on.
RunningNoFault == pc = "run" /\ fault = NoFault

\* Some thread can take a step.
CanStep ==
    \/ ENABLED MainStep
    \/ \E u \in 1..Len(units) : ENABLED UnitStep(u)

\* C19: on a tree without I/O failure a run that was started returns
\* success under fair scheduling; and in no state before the end of the
\* process are the main thread and all units unable to step.
C19_Terminates ==
    /\ RunningNoFault ~> (pc = "run_ok")
    /\ [](pc # "exited" => CanStep)

\* run has returned success on the chain, all its units joined.
C19_Witness ==
    /\ pc = "run_ok"
    /\ fault = NoFault
    /\ Len(units) = Depth
    /\ joined = 1..Depth

(***************************************************************************)
(* Exclusion in the file transform engine, checked under Spec.             *)
(***************************************************************************)
\* No path of the Path Set is another path of it, or below one.
PathsDisjoint(p) ==
    \A i, j \in 1..Len(p) : i # j => p[i] \notin Below(p[j])

\* The main thread is inside modify_file on f (between the end of its read
\* loop and its return).
MainInEngine(f) == pc \in {"reopen", "write"} /\ path[idx] = f

\* Unit u is inside modify_file on f.
UnitInEngine(u, f) == units[u].st \in {"reopen", "write"} /\ Entry(u) = f

\* C20: with the paths of the Path Set pairwise disjoint, no two tasks are
\* inside modify_file on the same file at the same time, and no file is
\* passed to modify_file more than once in a run.
C20_OneTaskPerFile ==
    PathsDisjoint(args.path) =>
        \A f \in Files :
            /\ calls[f] <= 1
            /\ \A u \in 1..Len(units) :
                  ~(MainInEngine(f) /\ UnitInEngine(u, f))
            /\ \A u, v \in 1..Len(units) :
                  (UnitInEngine(u, f) /\ UnitInEngine(v, f)) => u = v
            /\ (MainInEngine(f) \/ \E u \in 1..Len(units) : UnitInEngine(u, f))
                  => calls[f] = 1

\* The main thread is inside modify_file on the top-level file t while the
\* unit of the directory given before it is inside modify_file on a file of
\* that directory.
C20_Witness ==
    /\ path = <<DirM, FileT>>
    /\ MainInEngine(FileT)
    /\ \E u \in 1..Len(units) : UnitInEngine(u, FileM) /\ units[u].dir = DirM

(***************************************************************************)
(* The return of run on the error of a top-level file, checked under Spec. *)
(***************************************************************************)
\* run has returned the error of modify_file on a top-level file: the
\* Fisher was constructed (its Path Set is not empty) and the error is an
\* I/O error, which no other step of run returns.
TopLevelFileFailed == path # <<>> /\ err = "Io"

\* The positions of the main thread inside the drain loop and after it.
InDrainLoop == pc \in {"drain_locked", "join", "drain", "run_ok"}

\* Unit u is inside modify_file, about to truncate the file or to write
\* it: its next step changes a file.
ModifyingFile(u) == units[u].st \in {"reopen", "write"}

\* C21: when run returns the error of a top-level file transform it has
\* not entered the drain loop: no unit has been joined or taken from the
\* registry, every unit spawned so far (one for each directory path that
\* came earlier in the Path Set, and the units these have spawned) is still
\* an entry of the registry, and a unit that is inside modify_file at that
\* moment can take its next step, which changes a file.
C21_ErrorSkipsDrain ==
    TopLevelFileFailed =>
        /\ ~InDrainLoop
        /\ pc \in {"run_err", "exited"}
        /\ joined = {}
        /\ joining = 0
        /\ \A u \in UnitIds : InRegistry(u)
        /\ \A j \in 1..(idx - 1) :
              IsDir(path[j]) => \E u \in UnitIds : units[u].dir = path[j]
        /\ pc = "run_err" =>
              \A u \in UnitIds : ModifyingFile(u) => ENABLED UnitStep(u)

\* run has returned the error of the top-level file t while the unit of the
\* directory m/ given before it, not joined and still registered, is inside
\* modify_file on fm, and the unit it has spawned for a/ has truncated fa
\* and not yet written it.
C21_Witness ==
    /\ pc = "run_err"
    /\ path = <<DirM, FileT>>
    /\ joined = {}
    /\ \E u, v \in UnitIds :
          /\ units[u].dir = DirM
          /\ InRegistry(u)
          /\ ModifyingFile(u)
          /\ Entry(u) = FileM
          /\ units[v].dir = DirA
          /\ InRegistry(v)
          /\ units[v].st = "write"
          /\ content[FileA] = <<>>
          /\ units[v].blocks # <<>>

====
